---- MODULE Spec2Model ----
(***************************************************************************)
(* LingSIP: SIP dialog handlers (pkg/sip/func_register.go), the call       *)
(* session store (pkg/sip/ua, memory back-end) and the AI phone script     *)
(* interpreter (AIPhoneEngine) as one state machine.                       *)
(*                                                                         *)
(* SIP handlers run on their own goroutines, so each handler is split at   *)
(* the points where it releases a store lock or may block on a channel.    *)
(* The interpreter of a session is one goroutine; it is split at its       *)
(* blocking operations (TTS call, paced RTP send, RTP read, ASR call, LLM  *)
(* call, timer, channel send).                                             *)
(***************************************************************************)
EXTENDS Integers, Sequences, FiniteSets, TLC

(***************************************************************************)
(* Bounds of the model                                                     *)
(***************************************************************************)
MaxReqs == 4        \* SIP requests received in one behaviour
MaxSess == 2        \* ScriptSession objects ever created
MaxAct == 2         \* ua.SessionInfo objects ever created
MaxPackets == 2     \* RTP packets of one synthesised utterance
MaxTick == 3        \* largest elapsed time tracked for a session
MaxMissed == 1      \* RTP packets of one peer counted as read by another session

CallIds == {"c1"}
AllCallIds == {"c1", "c2"}        \* the call-ids the tables are indexed by
\* the RTP address the user agent of each call-id names in its SDP, and the
\* IP of each address
ClientAddrOf == [c1 |-> "10.0.0.1:4000", c2 |-> "10.0.0.2:4000"]
HostOf == ("10.0.0.1:4000" :> "10.0.0.1") @@ ("10.0.0.2:4000" :> "10.0.0.2")
Addrs == {ClientAddrOf[c] : c \in AllCallIds}
BadSDP == "bad-sdp"
NoAddr == "none"
Hs == {1, 2}                    \* goroutines serving SIP requests
Sids == 1..MaxSess
Acts == 1..MaxAct

Nil == "nil"                    \* a nil *AIPhoneScriptStep

(***************************************************************************)
(* Scripts (models.AIPhoneScript with its Steps)                           *)
(***************************************************************************)
StepData ==
  [welcome |-> "", audioText |-> "", prompt |-> "", condition |-> "",
   nextStep |-> "", trueNext |-> "", falseNext |-> "", waitTime |-> 0,
   collectKey |-> "",
   dtmfPrompt |-> "", dtmfMaxDigits |-> 0, dtmfTerminator |-> "",
   dtmfOptions |-> [k \in {} |-> ""]]

StepTypes ==
  {"callout", "playaudio", "collect", "transfer", "hangup", "condition",
   "wait", "record", "dtmf"}

\* play a text, then hang up
ScriptHang ==
  [Status |-> "active", StartStepID |-> "a", MaxSteps |-> 3, MaxDuration |-> 2,
   Steps |-> [a |-> [Type |-> "playaudio",
                     Data |-> [StepData EXCEPT !.audioText = "notice",
                                               !.nextStep = "h"]],
              h |-> [Type |-> "hangup", Data |-> StepData]]]

\* one step that names no successor
ScriptTerm ==
  [Status |-> "active", StartStepID |-> "a", MaxSteps |-> 3, MaxDuration |-> 2,
   Steps |-> [a |-> [Type |-> "record", Data |-> StepData]]]

\* a cycle: wait, then wait again
ScriptLoop ==
  [Status |-> "active", StartStepID |-> "a", MaxSteps |-> 2, MaxDuration |-> 2,
   Steps |-> [a |-> [Type |-> "wait",
                     Data |-> [StepData EXCEPT !.nextStep = "a"]]]]

\* a successor that is not a step of the script
ScriptMissing ==
  [Status |-> "active", StartStepID |-> "a", MaxSteps |-> 3, MaxDuration |-> 2,
   Steps |-> [a |-> [Type |-> "transfer",
                     Data |-> [StepData EXCEPT !.nextStep = "missing"]]]]

\* one conversational turn, a condition, then hang up
ScriptTalk ==
  [Status |-> "active", StartStepID |-> "a", MaxSteps |-> 4, MaxDuration |-> 2,
   Steps |-> [a |-> [Type |-> "callout",
                     Data |-> [StepData EXCEPT !.welcome = "hello",
                                               !.prompt = "ask",
                                               !.nextStep = "c"]],
              c |-> [Type |-> "condition",
                     Data |-> [StepData EXCEPT !.condition = "has_user_response",
                                               !.trueNext = "h",
                                               !.falseNext = "w"]],
              w |-> [Type |-> "wait",
                     Data |-> [StepData EXCEPT !.nextStep = "h"]],
              h |-> [Type |-> "hangup", Data |-> StepData]]]

\* one question without prompt whose answer is collected
ScriptCollect ==
  [Status |-> "active", StartStepID |-> "a", MaxSteps |-> 1, MaxDuration |-> 2,
   Steps |-> [a |-> [Type |-> "collect",
                     Data |-> [StepData EXCEPT !.collectKey = "answer"]]]]

\* two questions, then a branch on collect_success
ScriptRecollect ==
  [Status |-> "active", StartStepID |-> "a", MaxSteps |-> 3, MaxDuration |-> 2,
   Steps |-> [a |-> [Type |-> "collect",
                     Data |-> [StepData EXCEPT !.collectKey = "name", !.nextStep = "b"]],
              b |-> [Type |-> "collect",
                     Data |-> [StepData EXCEPT !.collectKey = "answer", !.nextStep = "c"]],
              c |-> [Type |-> "condition",
                     Data |-> [StepData EXCEPT !.condition = "collect_success",
                                               !.trueNext = "t", !.falseNext = "f"]],
              t |-> [Type |-> "hangup", Data |-> StepData],
              f |-> [Type |-> "hangup", Data |-> StepData]]]

\* a menu: up to two keys, ended by the default terminator
ScriptDtmf ==
  [Status |-> "active", StartStepID |-> "a", MaxSteps |-> 1, MaxDuration |-> 2,
   Steps |-> [a |-> [Type |-> "dtmf",
                     Data |-> [StepData EXCEPT
                                 !.dtmfPrompt = "press a key",
                                 !.dtmfMaxDigits = 2,
                                 !.dtmfOptions = (<<"1">> :> "x") @@ (<<"1", "2">> :> "y"),
                                 !.nextStep = "z", !.falseNext = "f"]],
              x |-> [Type |-> "hangup", Data |-> StepData],
              y |-> [Type |-> "hangup", Data |-> StepData],
              z |-> [Type |-> "hangup", Data |-> StepData],
              f |-> [Type |-> "hangup", Data |-> StepData]]]

\* the keys whose RTP telephone events arrive
DtmfKeys == {"1", "2", "#"}

\* the seeded job-need survey (seedAIPhoneScripts)
ScriptSurvey ==
  [Status |-> "active", StartStepID |-> "welcome", MaxSteps |-> 20,
   MaxDuration |-> 300000,
   Steps |->
     [welcome |-> [Type |-> "callout",
                   Data |-> [StepData EXCEPT !.prompt = "ask for job need",
                                             !.welcome = "hello from the bureau",
                                             !.nextStep = "check_need"]],
      check_need |-> [Type |-> "condition",
                      Data |-> [StepData EXCEPT !.condition = "has_job_need",
                                                !.trueNext = "collect_need",
                                                !.falseNext = "ending"]],
      collect_need |-> [Type |-> "callout",
                        Data |-> [StepData EXCEPT !.prompt = "ask which service",
                                                  !.nextStep = "promise_contact"]],
      promise_contact |-> [Type |-> "playaudio",
                           Data |-> [StepData EXCEPT !.audioText = "we will call you",
                                                     !.nextStep = "ending"]],
      ending |-> [Type |-> "callout",
                  Data |-> [StepData EXCEPT !.prompt = "say goodbye",
                                            !.nextStep = "hangup"]],
      hangup |-> [Type |-> "hangup", Data |-> StepData]]]

\* the short script, not activated yet (ScriptStatusDraft)
ScriptDraft == [ScriptHang EXCEPT !.Status = "draft"]

Scripts ==
  [hang |-> ScriptHang, term |-> ScriptTerm, loop |-> ScriptLoop,
   missing |-> ScriptMissing, talk |-> ScriptTalk, draft |-> ScriptDraft,
   collect |-> ScriptCollect, survey |-> ScriptSurvey, dtmf |-> ScriptDtmf,
   recollect |-> ScriptRecollect]

ScriptNames == DOMAIN Scripts

\* script_phone_mappings: dialled number -> script (enabled mappings only)
PhoneMappings ==
  [n1001 |-> "hang", n1002 |-> "term", n1003 |-> "loop",
   n1004 |-> "missing", n1005 |-> "talk", n1006 |-> "draft",
   n1007 |-> "collect", n10086 |-> "survey", n1008 |-> "dtmf",
   n1009 |-> "recollect"]

\* the numbers mapped to a script that is not active
DraftPhones == {p \in DOMAIN PhoneMappings : Scripts[PhoneMappings[p]].Status # "active"}

\* the seeded numbers
SurveyPhones == {"n10086"}

\* the number of the key menu
DtmfPhones == {"n1008"}

\* the number of the two questions
RecollectPhones == {"n1009"}

\* the numbers of the short active scripts and a number without mapping
Phones ==
  (DOMAIN PhoneMappings \ (DraftPhones \cup SurveyPhones \cup DtmfPhones \cup RecollectPhones)) \cup {"n0000"}

\* models.GetAIPhoneScriptByPhone: the script of the first enabled mapping
GetAIPhoneScriptByPhone(phone) ==
  IF phone \in DOMAIN PhoneMappings THEN PhoneMappings[phone] ELSE Nil

\* AIPhoneScript.GetStepByID: the step with that identifier, or nil
GetStepByID(script, stepID) ==
  IF stepID \in DOMAIN Scripts[script].Steps THEN stepID ELSE Nil

\* AIPhoneScript.GetStartStep
GetStartStep(script) == GetStepByID(script, Scripts[script].StartStepID)

StepOf(script, stepID) == Scripts[script].Steps[stepID]

(***************************************************************************)
(* State                                                                   *)
(***************************************************************************)
VARIABLES
  PendingSessions,  \* UAConfig.PendingSessions: call-id -> client RTP address
  ActiveSessions,   \* UAConfig.ActiveSessions: call-id -> SessionInfo object
  info,             \* the SessionInfo objects (channels of an active session)
  MemoryCalls,      \* UAConfig.MemoryCalls: call-id -> call record
  sessions,         \* AIPhoneEngine.sessions: call-id -> ScriptSession object
  sess,             \* the ScriptSession objects and their interpreter goroutine
  hs,               \* the goroutines serving SIP requests
  responses,        \* SIP responses sent: <<method, call-id, code>>
  nreq,             \* number of SIP requests received
  reqlog,           \* per call-id: INVITEs answered 200 OK, methods received
  crash,            \* the runtime panic that ended the process, or "none"
  manager,          \* ScriptManager: the script rows of the database, the cache
  rtpConn,          \* the RTP socket of the server: is a read deadline pending
  handler           \* LLMHandler: the sessions whose text h.messages holds

vars ==
  <<PendingSessions, ActiveSessions, info, MemoryCalls, sessions, sess, hs,
    responses, nreq, reqlog, crash, manager, rtpConn, handler>>

\* what the script interpreter leaves alone, but for the reads of a listen
\* and the LLM query
sipVars ==
  <<PendingSessions, ActiveSessions, info, MemoryCalls, hs, responses, nreq, reqlog,
    manager, rtpConn, handler>>

\* recognised user utterances (ASR results), as sequences of characters
\* written in pinyin
UserTexts == {<<"ni", "hao">>}

\* "ni hao", "wo xiang zhao gong zuo" (I want to find a job), "hao de"
Greeting == <<"ni", "hao">>
WantJob == <<"wo", "xiang", "zhao", "gong", "zuo">>
Okay == <<"hao", "de">>

\* the caller of the survey scenario: what each recognised utterance is
SurveyCaller == <<Greeting, WantJob, Okay>>

\* the keyword lists of evaluateCondition
JobKeywords ==
  {<<"xu", "yao">>, <<"xiang", "yao">>, <<"zhao", "gong", "zuo">>, <<"jiu", "ye">>,
   <<"pei", "xun">>, <<"chuang", "ye">>, <<"shi", "ye">>, <<"gong", "zuo">>,
   <<"zhao", "pin">>}
RefusalKeywords ==
  {<<"bu", "xu", "yao">>, <<"bu", "yong">>, <<"mei", "you">>, <<"bu", "shi">>,
   <<"bu", "dui">>, <<"bu", "yao">>, <<"mei", "xing", "qu">>, <<"bu", "zhao">>}
GreetingKeywords ==
  {<<"ni", "hao">>, <<"wei">>, <<"ting", "dao">>, <<"ke", "yi">>, <<"neng", "ting">>,
   <<"zai", "ma">>, <<"shen", "me", "shi">>}
SatisfiedKeywords ==
  {<<"man", "yi">>, <<"hao", "de">>, <<"ke", "yi">>, <<"xie", "xie">>, <<"xing">>,
   <<"hao">>}
UnsatisfiedKeywords ==
  {<<"bu", "man", "yi">>, <<"bu", "hao">>, <<"bu", "xing">>, <<"bu", "ke", "yi">>,
   <<"bu", "dui">>}

\* contains(text, keywords): some keyword is a substring of the text
contains(text, keywords) ==
  \E k \in keywords :
    /\ Len(k) > 0 /\ Len(text) >= Len(k)
    /\ \E i \in 0..(Len(text) - Len(k)) : SubSeq(text, i + 1, i + Len(k)) = k

\* a nil *time.Time; times are counted from the session's StartTime
NoTime == -1

\* a ScriptSession that has not been created yet; EndTime and Duration are
\* those of its DBSession, sequenceNumber and timestamp the variables of
\* the running playAudioBlocking, lastSeq and lastTs the header of the last
\* RTP packet sent for the session, missed the number of RTP packets of its
\* peer that another session's read took from the socket
NoSession ==
  [CallID |-> "", ClientAddr |-> "", missed |-> 0,
   Script |-> "", Status |-> "none", CurrentStep |-> Nil,
   StepCount |-> 0, Context |-> {}, Conversation |-> <<>>,
   stop |-> 0, stopClosed |-> FALSE, stopAt |-> "",
   elapsed |-> 0, pc |-> "none", site |-> "", retryCount |-> 0, pk |-> 0,
   exec |-> <<>>, rtp |-> 0, tts |-> 0, asr |-> 0, llm |-> 0, dtmfInput |-> <<>>, sent |-> {},
   buffer |-> <<>>, audioData |-> <<>>, packetSamples |-> <<>>, isValidPacket |-> "",
   EndTime |-> NoTime, Duration |-> 0, ErrorMessage |-> <<>>,
   sequenceNumber |-> 0, timestamp |-> 0, lastSeq |-> 0, lastTs |-> 0]

\* a SessionInfo that has not been created yet
\* the capacity of SessionInfo.DTMFChannel
DTMFChannelCap == 10

NoInfo == [made |-> FALSE, StopRecording |-> 0, dtmfClosed |-> FALSE,
           DTMFChannel |-> <<>>, offered |-> ""]

IdleHandler == [m |-> "idle", c |-> "", pc |-> "", addr |-> "", phone |-> "",
                sid |-> 0, act |-> 0]

\* nothing received yet for a call-id
NoLog == [accepted |-> 0, seen |-> {}]

\* no call record; AnswerTime names the event whose time was stored, or "nil"
NoCall == [Status |-> "none", AnswerTime |-> "nil"]

\* script files: name, start identifier and the steps of the groups in order
StepConfig(id, type, data) == [ID |-> id, Type |-> type, Data |-> data]
ScriptConfigs ==
  {[Name |-> "good", StartID |-> "a",
    Steps |-> <<StepConfig("a", "callout", [StepData EXCEPT !.welcome = "hello", !.nextStep = "b"]),
                StepConfig("b", "hangup", StepData)>>],
   [Name |-> "nostart", StartID |-> "q",
    Steps |-> <<StepConfig("a", "hangup", StepData)>>],
   [Name |-> "dangling", StartID |-> "a",
    Steps |-> <<StepConfig("a", "callout", [StepData EXCEPT !.welcome = "hello", !.nextStep = "q"])>>],
   [Name |-> "halfcond", StartID |-> "a",
    Steps |-> <<StepConfig("a", "condition", [StepData EXCEPT !.condition = "user_engaged",
                                                             !.trueNext = "b"]),
                StepConfig("b", "hangup", StepData)>>],
   [Name |-> "badcond", StartID |-> "a",
    Steps |-> <<StepConfig("a", "condition", [StepData EXCEPT !.condition = "user_engaged",
                                                             !.trueNext = "b", !.falseNext = "q"]),
                StepConfig("b", "hangup", StepData)>>],
   [Name |-> "twice", StartID |-> "a",
    Steps |-> <<StepConfig("a", "callout", [StepData EXCEPT !.welcome = "hello", !.nextStep = "a"]),
                StepConfig("a", "hangup", StepData)>>],
   [Name |-> "badmenu", StartID |-> "a",
    Steps |-> <<StepConfig("a", "dtmf", [StepData EXCEPT !.dtmfOptions = (<<"1">> :> "q"),
                                                        !.nextStep = "b", !.falseNext = "b"]),
                StepConfig("b", "hangup", StepData)>>]}

ConfigNames == {cfg.Name : cfg \in ScriptConfigs}

\* a ScriptManager without scripts; the cache holds at most one script for a
\* name
NoManager == [db |-> {}, cache |-> [n \in ConfigNames |-> <<>>]]

\* LoadScriptFromJSON: the data of a step; only the data of a callout step
\* is converted
ConvertStepData(stepConfig) ==
  IF stepConfig.Type = "callout"
    THEN [StepData EXCEPT !.prompt = stepConfig.Data.prompt,
                          !.welcome = stepConfig.Data.welcome,
                          !.nextStep = stepConfig.Data.nextStep]
    ELSE StepData

\* LoadScriptFromJSON: the script row with its step rows, as reloaded
LoadedScript(cfg) ==
  [Name |-> cfg.Name, Status |-> "active", StartStepID |-> cfg.StartID,
   MaxDuration |-> 300000, MaxSteps |-> 50,
   Steps |-> [k \in 1..Len(cfg.Steps) |->
                [StepID |-> cfg.Steps[k].ID, Type |-> cfg.Steps[k].Type,
                 Data |-> ConvertStepData(cfg.Steps[k])]]]

\* LoadScriptFromJSON of a file that parses: the script row is created,
\* then a row for every step; the script is reloaded and cached
LoadScriptFromJSON(cfg) ==
  /\ crash = "none"
  /\ manager' = [db |-> manager.db \cup {LoadedScript(cfg)},
                 cache |-> [manager.cache EXCEPT ![cfg.Name] = <<LoadedScript(cfg)>>]]
  /\ UNCHANGED <<PendingSessions, ActiveSessions, info, MemoryCalls, sessions, sess, hs,
                 responses, nreq, reqlog, crash, rtpConn, handler>>

Init ==
  /\ PendingSessions = [c \in AllCallIds |-> NoAddr]
  /\ ActiveSessions = [c \in AllCallIds |-> 0]
  /\ info = [a \in Acts |-> NoInfo]
  /\ MemoryCalls = [c \in AllCallIds |-> NoCall]
  /\ sessions = [c \in AllCallIds |-> 0]
  /\ sess = [s \in Sids |-> NoSession]
  /\ hs = [h \in Hs |-> IdleHandler]
  /\ responses = {}
  /\ reqlog = [c \in AllCallIds |-> NoLog]
  /\ nreq = 0
  /\ crash = "none"
  /\ manager = NoManager
  /\ rtpConn = [deadline |-> FALSE]
  /\ handler = [messages |-> {}]

(***************************************************************************)
(* The script interpreter (AIPhoneEngine.executeScript and its steps)      *)
(***************************************************************************)
MaxRetries == 2

\* UAConfig.MaxConcurrentSessions as configured here (any value above 0 is
\* kept by ApplyDefaults; the default is 100)
MaxConcurrentSessions == 1

DataOf(r) == StepOf(r.Script, r.CurrentStep).Data
TypeOf(r) == StepOf(r.Script, r.CurrentStep).Type

\* ScriptSession.addMessage
addMessage(r, role, content) ==
  [r EXCEPT !.Conversation =
     Append(@, [Role |-> role, Content |-> content, StepID |-> r.CurrentStep])]

\* the last step execution record, with some fields replaced
SetLastExec(r, status, next) ==
  [r EXCEPT !.exec[Len(r.exec)] = [@ EXCEPT !.Status = status, !.NextStepID = next]]

\* ScriptSession.markCompleted, markFailed, markTimeout: the status written;
\* AIPhoneSession.MarkCompleted and MarkFailed also set EndTime to the
\* current time and Duration to EndTime - StartTime, markTimeout does not;
\* MarkFailed and markTimeout store the error message
markCompleted(r) ==
  [r EXCEPT !.Status = "completed", !.pc = "cleanup",
            !.EndTime = r.elapsed, !.Duration = r.elapsed]
markFailed(r, errorMessage) ==
  [r EXCEPT !.Status = "failed", !.pc = "cleanup", !.ErrorMessage = errorMessage,
            !.EndTime = r.elapsed, !.Duration = r.elapsed]
markTimeout(r) ==
  [r EXCEPT !.Status = "timeout", !.pc = "cleanup",
            !.ErrorMessage = <<"Script execution timeout">>]

\* executeStep returned an error: the execution is marked failed and
\* executeScript marks the session failed and returns
FailStep(r) ==
  markFailed(SetLastExec(r, "failed", ""), <<"Step execution failed: ", r.CurrentStep>>)

\* "break" after a step that named no successor: it leaves the select
\* statement, so the for loop goes on with the same CurrentStep
AfterEmptyNext(r) == [r EXCEPT !.pc = "loop"]

\* an executeScript that does not test the result of GetStepByID
FinishStepWithoutLookupTest(r, nextStepID) ==
  LET r1 == SetLastExec(r, "completed", nextStepID)
      r2 == [r1 EXCEPT !.StepCount = @ + 1]
  IN IF nextStepID = ""
       THEN AfterEmptyNext(r2)
       ELSE [r2 EXCEPT !.CurrentStep = GetStepByID(r.Script, nextStepID), !.pc = "loop"]

\* executeStep returned nextStepID without error: the execution is marked
\* completed, StepCount is incremented and the successor is looked up
FinishStep(r, nextStepID) ==
  LET r1 == SetLastExec(r, "completed", nextStepID)
      r2 == [r1 EXCEPT !.StepCount = @ + 1]
  IN IF nextStepID = ""
       THEN AfterEmptyNext(r2)
       ELSE LET r3 == [r2 EXCEPT !.CurrentStep = GetStepByID(r.Script, nextStepID)]
            IN IF r3.CurrentStep = Nil
                 THEN markFailed(r3, <<"Next step not found: ", nextStepID>>)
                                       ELSE [r3 EXCEPT !.pc = "loop"]

\* playTTSAudio(text): an empty text plays nothing, otherwise TTS is called
Speak(r, text, site, cont) ==
  IF text = "" THEN cont ELSE [r EXCEPT !.pc = "tts", !.site = site]

\* the retry prompts of executeCalloutStep and executeCollectStep
RetryPrompt(type, retryCount) ==
  IF type = "callout"
    THEN (IF retryCount = 1 THEN "can you hear me" ELSE "please speak or press a key")
    ELSE (IF retryCount = 1 THEN "please say it again" ELSE "please speak up")

\* executeCalloutStep after its turn loop: without user input the context
\* records no_user_response, with user input the mark is deleted
EndCallout(r, hasUserInput) ==
  FinishStep([r EXCEPT !.Context = IF hasUserInput
                                     THEN @ \ {"no_user_response"}
                                     ELSE @ \cup {"no_user_response"}],
             DataOf(r).nextStep)

\* executeCollectStep after its retries are used up
EndCollectFailed(r) ==
  FinishStep([r EXCEPT !.Context = @ \cup {"collect_failed"}],
             IF DataOf(r).falseNext # "" THEN DataOf(r).falseNext
                                         ELSE DataOf(r).nextStep)

\* a turn loop that allows one attempt too many
TurnLoopOneMore(r) ==
  IF r.retryCount <= MaxRetries + 1
    THEN [r EXCEPT !.pc = "listen"]
    ELSE IF TypeOf(r) = "callout" THEN EndCallout(r, FALSE)
                                  ELSE EndCollectFailed(r)

\* the head of the turn loop: listen again while retries remain
TurnLoop(r) ==
  IF r.retryCount <= MaxRetries
    THEN [r EXCEPT !.pc = "listen"]
    ELSE IF TypeOf(r) = "callout" THEN EndCallout(r, FALSE)
                                  ELSE EndCollectFailed(r)

\* listenForUserInput returned (text, err) to the turn loop of a callout or
\* collect step
OnListen(r, text, err) ==
  LET r1 == [r EXCEPT !.retryCount = @ + 1]
  IN IF err THEN TurnLoop(r1)
     ELSE IF text = <<>>
       THEN (IF r1.retryCount <= MaxRetries
               THEN Speak([r1 EXCEPT !.exec[Len(r.exec)].Prompts = @ + 1],
                          RetryPrompt(TypeOf(r), r1.retryCount),
                          "retry", TurnLoop(r1))
               ELSE TurnLoop(r1))
     ELSE IF TypeOf(r) = "callout"
       THEN [addMessage(r, "user", text) EXCEPT !.pc = "llm",
                                                !.exec[Len(r.exec)].UserInput = text]
       ELSE FinishStep([addMessage(r, "user", text) EXCEPT
                          !.exec[Len(r.exec)].UserInput = text,
                          !.Context = IF DataOf(r).collectKey # ""
                                        THEN @ \cup {DataOf(r).collectKey} ELSE @],
                       DataOf(r).nextStep)

\* playTTSAudio returned to its caller: ok, or the TTS error
AfterSpeak(r, ok) ==
  CASE r.site = "welcome" ->
         IF ok THEN [r EXCEPT !.pc = "listen", !.retryCount = 0] ELSE FailStep(r)
    [] r.site = "retry" -> TurnLoop(r)
    [] r.site = "reply" -> IF ok THEN EndCallout(r, TRUE) ELSE FailStep(r)
    [] r.site = "audio" -> IF ok THEN FinishStep(r, DataOf(r).nextStep) ELSE FailStep(r)
    [] r.site = "dtmf" ->
         IF ok THEN [r EXCEPT !.pc = "dtmf", !.dtmfInput = <<>>] ELSE FailStep(r)

\* getUserResponseStatus / isUserEngaged
isUserEngaged(r) ==
  /\ \E i \in 1..Len(r.Conversation) :
        r.Conversation[i].Role = "user" /\ Len(r.Conversation[i].Content) > 0
  /\ "no_user_response" \notin r.Context

\* the contents of the user messages of the transcript
UserContents(r) ==
  {r.Conversation[i].Content :
     i \in {j \in 1..Len(r.Conversation) : r.Conversation[j].Role = "user"}}

\* evaluateCondition, has_job_need: what the user messages mention
hasPositive(r) == \E t \in UserContents(r) : contains(t, JobKeywords)
hasNegative(r) == \E t \in UserContents(r) : contains(t, RefusalKeywords)
hasGreeting(r) == \E t \in UserContents(r) : contains(t, GreetingKeywords)

\* evaluateCondition, user_satisfied: the first user message that contains
\* a keyword of either list decides, the first list being tried first
userSatisfied(r) ==
  LET hits == {i \in 1..Len(r.Conversation) :
                 /\ r.Conversation[i].Role = "user"
                 /\ contains(r.Conversation[i].Content,
                             SatisfiedKeywords \cup UnsatisfiedKeywords)}
  IN IF hits = {} THEN TRUE
     ELSE LET first == CHOOSE i \in hits : \A j \in hits : i <= j
          IN contains(r.Conversation[first].Content, SatisfiedKeywords)

\* evaluateCondition: the result
evaluateCondition(r, condition) ==
  CASE condition = "has_job_need" ->
         isUserEngaged(r) /\ hasPositive(r) /\ ~hasNegative(r)
    [] condition = "user_satisfied" -> userSatisfied(r)
    [] condition = "needs_further_inquiry" -> "needs_further_inquiry" \in r.Context
    [] condition = "has_user_response" -> isUserEngaged(r)
    [] condition = "user_engaged" -> isUserEngaged(r)
    [] condition = "collect_success" ->
         IF "collect_failed" \in r.Context THEN FALSE ELSE isUserEngaged(r)
    [] OTHER -> FALSE

\* evaluateCondition: the context it leaves; has_job_need marks a user who
\* only greeted for further inquiry
conditionContext(r, condition) ==
  IF /\ condition = "has_job_need" /\ isUserEngaged(r)
     /\ hasGreeting(r) /\ ~hasPositive(r) /\ ~hasNegative(r)
    THEN r.Context \cup {"needs_further_inquiry"}
    ELSE r.Context

\* executeConditionStep
executeConditionStep(r) ==
  FinishStep([r EXCEPT !.Context = conditionContext(r, DataOf(r).condition)],
             IF evaluateCondition(r, DataOf(r).condition)
               THEN DataOf(r).trueNext ELSE DataOf(r).falseNext)

\* executePlayAudioStep up to its playTTSAudio call
executePlayAudioStep(r) ==
  IF DataOf(r).audioText # "" THEN Speak(r, DataOf(r).audioText, "audio", r)
  ELSE IF DataOf(r).welcome # "" THEN Speak(r, DataOf(r).welcome, "audio", r)
  ELSE FailStep(r)

\* executeCalloutStep / executeCollectStep up to the first blocking call
executeTurnStep(r) ==
  Speak(r, DataOf(r).welcome, "welcome",
        [r EXCEPT !.pc = "listen", !.retryCount = 0])

\* executeDTMFStep: the defaults of its parameters
maxDigitsOf(r) == IF DataOf(r).dtmfMaxDigits = 0 THEN 1 ELSE DataOf(r).dtmfMaxDigits
terminatorOf(r) == IF DataOf(r).dtmfTerminator = "" THEN "#" ELSE DataOf(r).dtmfTerminator

\* executeDTMFStep up to its first blocking call: the prompt is spoken, then
\* listenForDTMF starts with an empty input
executeDTMFStep(r) ==
  Speak(r, DataOf(r).dtmfPrompt, "dtmf", [r EXCEPT !.pc = "dtmf", !.dtmfInput = <<>>])

\* executeDTMFStep after listenForDTMF returned dtmfInput: without input the
\* successor is falseNext; otherwise the input is recorded and the
\* successor is its entry of dtmfOptions, or nextStep
OnDTMF(r, dtmfInput) ==
  IF dtmfInput = <<>>
    THEN FinishStep(r, DataOf(r).falseNext)
    ELSE LET r1 == addMessage([r EXCEPT !.exec[Len(r.exec)].UserInput = dtmfInput],
                              "user", <<"DTMF:">> \o dtmfInput)
         IN FinishStep(r1, IF dtmfInput \in DOMAIN DataOf(r).dtmfOptions
                             THEN DataOf(r).dtmfOptions[dtmfInput]
                             ELSE DataOf(r).nextStep)

\* a listenForDTMF that leaves the terminator in the input
AfterDigitKeepingTerminator(r, digit) ==
  LET input == Append(r.dtmfInput, digit)
  IN IF digit = terminatorOf(r) \/ Len(input) >= maxDigitsOf(r)
       THEN OnDTMF([r EXCEPT !.dtmfInput = input], input)
       ELSE [r EXCEPT !.dtmfInput = input]

\* listenForDTMF read a telephone-event packet of its client: the digit is
\* appended; the terminator is removed again and ends the loop, as does an
\* input of maxDigits digits
AfterDigit(r, digit) ==
  LET input == Append(r.dtmfInput, digit)
      stripped == SubSeq(input, 1, Len(input) - 1)
  IN IF digit = terminatorOf(r)
       THEN OnDTMF([r EXCEPT !.dtmfInput = stripped], stripped)
     ELSE IF Len(input) >= maxDigitsOf(r)
       THEN OnDTMF([r EXCEPT !.dtmfInput = input], input)
     ELSE [r EXCEPT !.dtmfInput = input]

\* executeStep: the execution record is created and the step type
\* dispatched; Listens and Prompts count the calls of listenForUserInput and
\* the retry prompts spoken during the execution
executeStep(r) ==
  LET r1 == [r EXCEPT !.exec = Append(@, [StepID |-> r.CurrentStep,
                                          StepType |-> TypeOf(r),
                                          Status |-> "running",
                                          NextStepID |-> "",
                                          UserInput |-> <<>>,
                                          Listens |-> 0, Prompts |-> 0]),
                      !.retryCount = 0]
      t == TypeOf(r)
  IN CASE t = "callout" -> executeTurnStep(r1)
       [] t = "collect" -> executeTurnStep(r1)
       [] t = "playaudio" -> executePlayAudioStep(r1)
       [] t = "condition" -> executeConditionStep(r1)
       [] t = "wait" -> [r1 EXCEPT !.pc = "wait"]
       [] t = "record" -> FinishStep(r1, DataOf(r).nextStep)
       [] t = "transfer" -> FinishStep(r1, DataOf(r).nextStep)
       [] t = "hangup" -> [r1 EXCEPT !.pc = "hangup"]
       [] t = "dtmf" -> executeDTMFStep(r1)
       [] OTHER -> FailStep(r1)

\* a for loop whose condition tests only CurrentStep, not StepCount
LoopHeadWithoutStepLimit(r) ==
  IF r.CurrentStep = Nil
    THEN markCompleted(r)
  ELSE IF r.stop > 0
    THEN [r EXCEPT !.stop = 0, !.pc = "cleanup"]
  ELSE IF r.elapsed > Scripts[r.Script].MaxDuration
    THEN markTimeout(r)
  ELSE executeStep(r)

\* one pass of the for loop of executeScript, up to the first blocking call
\* of the step it executes
LoopHead(r) ==
  IF ~(r.CurrentStep # Nil /\ r.StepCount < Scripts[r.Script].MaxSteps)
    THEN markCompleted(r)
  ELSE IF r.stop > 0
    THEN [r EXCEPT !.stop = 0, !.pc = "cleanup"]
  ELSE IF r.elapsed > Scripts[r.Script].MaxDuration
    THEN markTimeout(r)
  ELSE executeStep(r)

\* the interpreter goroutine starts: the session becomes running
ExecuteScript_Start(s) ==
  /\ crash = "none"
  /\ sess[s].pc = "init"
  /\ sess' = [sess EXCEPT ![s] = [@ EXCEPT !.Status = "running", !.pc = "loop"]]
  /\ UNCHANGED <<sipVars, sessions, crash>>

ExecuteScript_Loop(s) ==
  /\ crash = "none"
  /\ sess[s].pc = "loop"
  /\ sess' = [sess EXCEPT ![s] = LoopHead(@)]
  /\ UNCHANGED <<sipVars, sessions, crash>>

\* callTTSService returns audio of n packets (n in Ns), or, if the service
\* may fail, an error; with audio, playAudioBlocking starts with
\* sequenceNumber 1 and timestamp 0
CallTTSWith(s, Ns, mayFail) ==
  /\ crash = "none"
  /\ sess[s].pc = "tts"
  /\ \/ \E n \in Ns :
          sess' = [sess EXCEPT ![s] = [@ EXCEPT !.tts = @ + 1, !.pc = "play", !.pk = n,
                                                !.sequenceNumber = 1, !.timestamp = 0]]
     \/ /\ mayFail
        /\ sess' = [sess EXCEPT ![s] = AfterSpeak([@ EXCEPT !.tts = @ + 1], FALSE)]
  /\ UNCHANGED <<sipVars, sessions, crash>>

CallTTS(s) == CallTTSWith(s, 1..MaxPackets, TRUE)

\* samples (and mu-law bytes) of one RTP packet
SamplesPerPacket == 160

\* playAudioBlocking: one RTP packet is written with the current
\* sequenceNumber and timestamp, both advance, then the loop sleeps 20 ms
PlayAudioPacket(s) ==
  /\ crash = "none"
  /\ sess[s].pc = "play"
  /\ LET r == [sess[s] EXCEPT !.rtp = @ + 1, !.pk = @ - 1,
                              !.lastSeq = sess[s].sequenceNumber,
                              !.lastTs = sess[s].timestamp,
                              !.sequenceNumber = @ + 1,
                              !.timestamp = @ + SamplesPerPacket]
     IN sess' = [sess EXCEPT ![s] = IF r.pk = 0 THEN AfterSpeak(r, TRUE) ELSE r]
  /\ UNCHANGED <<sipVars, sessions, crash>>

\* listenForUserInput, the RTP read loop: it ends without speech or with too
\* little audio (empty text), or with audio that is handed to ASR
\* (a caller who may stay silent, or one who always speaks)
ListenRTPWith(s, maySilent) ==
  /\ crash = "none"
  /\ sess[s].pc = "listen"
  /\ LET r == [sess[s] EXCEPT !.exec[Len(sess[s].exec)].Listens = @ + 1]
     IN \/ maySilent /\ sess' = [sess EXCEPT ![s] = OnListen(r, <<>>, FALSE)]
        \/ sess' = [sess EXCEPT ![s] = [r EXCEPT !.pc = "asr"]]
  /\ UNCHANGED <<sipVars, sessions, crash>>

ListenRTP(s) == ListenRTPWith(s, TRUE)

\* callASRService: a text of Texts, or, if the service may fail, an error
CallASRWith(s, Texts, mayFail) ==
  /\ crash = "none"
  /\ sess[s].pc = "asr"
  /\ \/ \E text \in Texts :
          sess' = [sess EXCEPT ![s] = OnListen([@ EXCEPT !.asr = @ + 1], text, FALSE)]
     \/ /\ mayFail
        /\ sess' = [sess EXCEPT ![s] = OnListen([@ EXCEPT !.asr = @ + 1], <<>>, TRUE)]
  /\ UNCHANGED <<sipVars, sessions, crash>>

\* callASRService: a text, an empty result, or an error
CallASR(s) == CallASRWith(s, UserTexts \cup {<<>>}, TRUE)

\* listenForDTMF: a telephone-event packet of the session's client is read
ListenDTMF_Digit(s) ==
  /\ crash = "none"
  /\ sess[s].pc = "dtmf"
  /\ \E digit \in DtmfKeys : sess' = [sess EXCEPT ![s] = AfterDigit(@, digit)]
  /\ UNCHANGED <<sipVars, sessions, crash>>

\* listenForDTMF: the timeout of the step has passed
ListenDTMF_Timeout(s) ==
  /\ crash = "none"
  /\ sess[s].pc = "dtmf"
  /\ sess' = [sess EXCEPT ![s] = OnDTMF(@, @.dtmfInput)]
  /\ UNCHANGED <<sipVars, sessions, crash>>

\* what a read of a listen leaves alone
listenVars ==
  <<PendingSessions, ActiveSessions, info, MemoryCalls, hs, responses, nreq, reqlog,
    manager, handler, sessions, crash>>

\* listenForUserInput, listenForDTMF: an iteration of the read loop sets the
\* read deadline of the shared socket and goes on to ReadFromUDP
Listen_SetReadDeadline(s) ==
  /\ crash = "none"
  /\ sess[s].pc \in {"listen", "dtmf"}
  /\ rtpConn' = [deadline |-> TRUE]
  /\ sess' = [sess EXCEPT ![s].pc = IF @ = "listen" THEN "read" ELSE "dtmfRead"]
  /\ UNCHANGED listenVars

\* listenForUserInput without packets: ReadFromUDP returns when the pending
\* deadline passes.  The loop goes on; or no speech came within
\* noSpeechTimeout and the listen returns at once; or the time of the listen
\* is over, the deadline is cleared and the listen returns without text
Listen_ReadTimeout(s) ==
  /\ crash = "none"
  /\ sess[s].pc = "read"
  /\ rtpConn.deadline
  /\ LET r == [sess[s] EXCEPT !.exec[Len(sess[s].exec)].Listens = @ + 1]
     IN \/ sess' = [sess EXCEPT ![s].pc = "listen"] /\ UNCHANGED rtpConn
        \/ sess' = [sess EXCEPT ![s] = OnListen(r, <<>>, FALSE)] /\ UNCHANGED rtpConn
        \/ sess' = [sess EXCEPT ![s] = OnListen(r, <<>>, FALSE)]
             /\ rtpConn' = [deadline |-> FALSE]
  /\ UNCHANGED listenVars

\* listenForDTMF without packets: ReadFromUDP returns when the pending
\* deadline passes.  The loop goes on, or the timeout of the step is over,
\* the deadline is cleared and the listen returns its input
ListenDTMF_ReadTimeout(s) ==
  /\ crash = "none"
  /\ sess[s].pc = "dtmfRead"
  /\ rtpConn.deadline
  /\ \/ sess' = [sess EXCEPT ![s].pc = "dtmf"] /\ UNCHANGED rtpConn
     \/ sess' = [sess EXCEPT ![s] = OnDTMF(@, @.dtmfInput)]
          /\ rtpConn' = [deadline |-> FALSE]
  /\ UNCHANGED listenVars

\* getMockAIResponse: the canned reply chosen by the transcript length
getMockAIResponse(r) == <<"mock", Len(r.Conversation) % 7>>

\* a callAIService that hands the LLM error to its caller
callAIServiceWithoutFallback(r, outcome) ==
  IF outcome = "answer" THEN [response |-> <<"llm", 0>>, err |-> FALSE]
                        ELSE [response |-> <<>>, err |-> TRUE]

\* callAIService(session, prompt) when llmService.Query returned outcome
\* ("answer" or "error"): the text and the error it returns
callAIService(r, outcome) ==
  IF outcome = "answer" THEN [response |-> <<"llm", 0>>, err |-> FALSE]
                        ELSE [response |-> getMockAIResponse(r), err |-> FALSE]

\* executeCalloutStep after callAIService returned: an error fails the step,
\* otherwise the reply is appended to the transcript and spoken
OnAIResponse(r, ai) ==
  IF ai.err THEN FailStep(r)
  ELSE LET r1 == addMessage(r, "assistant", ai.response)
       IN Speak(r1, "text", "reply", r1)

\* LLMHandler.Query: the prompt built from the transcript of session s is
\* appended to the messages of the one handler, and all of them are sent
QueryMessages(messages, s) == messages \cup {s}

\* the LLM query of a turn, with the outcomes the LLM service can have; sent
\* records whose text the request held.  The handler keeps the messages of
\* the session (the prompt, after an answer the reply as well)
CallAIWith(s, Outcomes) ==
  /\ crash = "none"
  /\ sess[s].pc = "llm"
  /\ \E outcome \in Outcomes :
       sess' = [sess EXCEPT ![s] =
                  OnAIResponse([@ EXCEPT !.llm = @ + 1,
                                         !.sent = QueryMessages(handler.messages, s)],
                               callAIService(@, outcome))]
  /\ handler' = [messages |-> QueryMessages(handler.messages, s)]
  /\ UNCHANGED <<PendingSessions, ActiveSessions, info, MemoryCalls, hs, responses, nreq,
                 reqlog, manager, rtpConn, sessions, crash>>

\* callAIService: the LLM answers, or fails and the canned reply is used
CallAI(s) == CallAIWith(s, {"answer", "error"})

\* executeWaitStep: the timer fires
WaitElapsed(s) ==
  /\ crash = "none"
  /\ sess[s].pc = "wait"
  /\ sess' = [sess EXCEPT ![s] = FinishStep(@, DataOf(@).nextStep)]
  /\ UNCHANGED <<sipVars, sessions, crash>>

\* executeWaitStep: a value is received from StopChan, the step fails
WaitStopped(s) ==
  /\ crash = "none"
  /\ sess[s].pc = "wait"
  /\ sess[s].stop > 0
  /\ sess' = [sess EXCEPT ![s] = FailStep([@ EXCEPT !.stop = 0])]
  /\ UNCHANGED <<sipVars, sessions, crash>>

\* executeHangupStep: a blocking send on StopChan (capacity 1)
ExecuteHangupStep(s) ==
  /\ crash = "none"
  /\ sess[s].pc = "hangup"
  /\ sess[s].stop = 0
  /\ sess' = [sess EXCEPT ![s] = FinishStep([@ EXCEPT !.stop = 1], "")]
  /\ UNCHANGED <<sipVars, sessions, crash>>

\* cleanupSession (deferred by executeScript): the engine forgets the
\* call-id and StopChan is closed.  markCompleted and markFailed have passed
\* a nil database handle to DBSession.MarkCompleted / MarkFailed, whose
\* db.Save either returns or panics; the deferred cleanup runs in both cases
CleanupSession(s) ==
  /\ crash = "none"
  /\ sess[s].pc = "cleanup"
  /\ sessions' = [sessions EXCEPT ![sess[s].CallID] = 0]
  /\ sess' = [sess EXCEPT ![s] = [@ EXCEPT !.stopClosed = TRUE, !.pc = "done"]]
  /\ \/ UNCHANGED crash
     \/ /\ sess[s].Status \in {"completed", "failed"}
        /\ crash' = "nil database handle"
  /\ UNCHANGED sipVars

\* listenForUserInput of session s: its ReadFromUDP on the server's one RTP
\* socket returns a packet sent by the peer of session t, which is listening
\* as well.  The packet is dropped when its source IP is not that of s's
\* client and decoded into s's audio buffer when it is; t's reads never see
\* it
ReadOtherPacket(s, t) ==
  /\ crash = "none"
  /\ s # t
  /\ sess[s].pc = "listen"
  /\ sess[t].pc = "listen"
  /\ sess[t].missed < MaxMissed
  /\ sess' = [sess EXCEPT ![t] = [@ EXCEPT !.missed = @ + 1]]
  /\ UNCHANGED <<sipVars, sessions, crash>>

BlockingPcs == {"tts", "play", "listen", "asr", "llm", "wait", "hangup"}

\* time passes while the interpreter is blocked
Tick(s) ==
  /\ crash = "none"
  /\ sess[s].pc \in BlockingPcs
  /\ sess[s].elapsed < MaxTick
  /\ sess' = [sess EXCEPT ![s] = [@ EXCEPT !.elapsed = @ + 1]]
  /\ UNCHANGED <<sipVars, sessions, crash>>

(***************************************************************************)
(* The SIP handlers (SipServer.handleInvite, handleAck, handleBye,         *)
(* handleCancel, hangupCall).  The store is the memory back-end; the       *)
(* server has a database handle, so the AI engine exists.                  *)
(***************************************************************************)
Respond(m, c, code) == responses' = responses \cup {<<m, c, code>>}

\* a request of method m for call-id c was received; ok = 1 when it is an
\* INVITE answered 200 OK
Received(m, c, ok) ==
  reqlog' = [reqlog EXCEPT ![c] = [accepted |-> @.accepted + ok,
                                   seen |-> @.seen \cup {m}]]

\* UAConfig.UpdateCallStatusInMemory; at names the answerTime argument
UpdateCallStatusInMemory(M, c, status, at) ==
  IF M[c].Status = "none" THEN M
  ELSE [M EXCEPT ![c] = [Status |-> status,
                         AnswerTime |-> IF at # "nil" THEN at ELSE @.AnswerTime]]

\* closing an active session: StopRecording is signalled without blocking,
\* the DTMF channel is closed and the call-id leaves the active table;
\* closing a closed channel panics
CloseActive(A, I, c, a) ==
  IF I[a].dtmfClosed
    THEN [A |-> A, I |-> I, crash |-> "close of closed channel"]
    ELSE [A |-> [A EXCEPT ![c] = 0],
          I |-> [I EXCEPT ![a] = [@ EXCEPT !.StopRecording = 1, !.dtmfClosed = TRUE]],
          crash |-> "none"]

\* hangupCall applied to the tables P (pending), A (active), I, M (calls)
hangupCall(P, A, I, M, c) ==
  LET cl == IF A[c] # 0 THEN CloseActive(A, I, c, A[c])
                        ELSE [A |-> A, I |-> I, crash |-> "none"]
  IN [P |-> [P EXCEPT ![c] = NoAddr], A |-> cl.A, I |-> cl.I, crash |-> cl.crash,
      M |-> IF cl.crash = "none" THEN UpdateCallStatusInMemory(M, c, "ended", "hangup")
                                 ELSE M]

\* a handleInvite that answers 500 to a bad SDP and then goes on to store
\* the dialog as if the SDP had been parsed
HandleInvite_RespondThenSave(h, c, sdp) ==
  /\ crash = "none" /\ nreq < MaxReqs /\ hs[h].m = "idle"
  /\ nreq' = nreq + 1
  /\ Respond("INVITE", c, IF sdp = BadSDP THEN 500 ELSE 200)
  /\ Received("INVITE", c, IF sdp = BadSDP THEN 0 ELSE 1)
  /\ hs' = [hs EXCEPT ![h] = [IdleHandler EXCEPT !.m = "INVITE", !.c = c,
                                                 !.pc = "save", !.addr = sdp]]
  /\ UNCHANGED <<manager, rtpConn, handler, PendingSessions, ActiveSessions, info, MemoryCalls, sessions, sess, crash>>

\* handleInvite up to tx.Respond: a bad SDP is answered 500, otherwise 200 OK
\* is sent before anything is stored
HandleInvite_Respond(h, c, sdp) ==
  /\ crash = "none" /\ nreq < MaxReqs /\ hs[h].m = "idle"
  /\ nreq' = nreq + 1
  /\ IF sdp = BadSDP
       THEN Respond("INVITE", c, 500) /\ hs' = hs /\ Received("INVITE", c, 0)
       ELSE /\ Respond("INVITE", c, 200)
            /\ Received("INVITE", c, 1)
            /\ hs' = [hs EXCEPT ![h] = [IdleHandler EXCEPT !.m = "INVITE", !.c = c,
                                                           !.pc = "save", !.addr = sdp]]
  /\ UNCHANGED <<manager, rtpConn, handler, PendingSessions, ActiveSessions, info, MemoryCalls, sessions, sess, crash>>

\* handleInvite after the response: SavePendingSession, then SaveCall with a
\* fresh record in state ringing
HandleInvite_Save(h) ==
  /\ crash = "none" /\ hs[h].m = "INVITE" /\ hs[h].pc = "save"
  /\ PendingSessions' = [PendingSessions EXCEPT ![hs[h].c] = hs[h].addr]
  /\ MemoryCalls' = [MemoryCalls EXCEPT ![hs[h].c] =
                       [Status |-> "ringing", AnswerTime |-> "nil"]]
  /\ hs' = [hs EXCEPT ![h] = IdleHandler]
  /\ UNCHANGED <<manager, rtpConn, handler, ActiveSessions, info, sessions, sess, responses, nreq, reqlog, crash>>

\* handleAck: GetPendingSession; an ACK without pending dialog is dropped
HandleAck_Get(h, c, phone) ==
  /\ crash = "none" /\ nreq < MaxReqs /\ hs[h].m = "idle"
  /\ nreq' = nreq + 1
  /\ Received("ACK", c, 0)
  /\ hs' = IF PendingSessions[c] = NoAddr THEN hs
           ELSE [hs EXCEPT ![h] = [IdleHandler EXCEPT !.m = "ACK", !.c = c,
                                     !.pc = "promote", !.phone = phone,
                                     !.addr = PendingSessions[c]]]
  /\ UNCHANGED <<manager, rtpConn, handler, PendingSessions, ActiveSessions, info, MemoryCalls, sessions, sess,
                 responses, crash>>

\* UAConfig.Db is set (the AI engine exists only with a database handle)
\* while UAConfig.StorageType is memory
DbConfigured == TRUE

\* handleAck's status update: with a database handle it is sent to the
\* database by updateCallStatusInDB, which finds no record of a call that
\* is kept in memory and returns; without a handle updateCallStatus
\* dispatches on the storage type
AckStatusUpdate(M, c) ==
  IF DbConfigured THEN M
                  ELSE UpdateCallStatusInMemory(M, c, "answered", "nil")

\* AIPhoneEngine.StartScript: the ScriptSession created for a script
NewSession(c, clientAddr, script) ==
  [NoSession EXCEPT !.CallID = c, !.ClientAddr = clientAddr,
                    !.Script = script, !.Status = "starting",
                    !.CurrentStep = GetStartStep(script), !.pc = "init"]

\* handleAck after the lookup: RemovePendingSession, SaveActiveSession with
\* new channels, the status update (sent to the database, which holds no
\* record of a call kept in memory), then StartScript or, if it fails,
\* hangupCall
HandleAck_Promote(h) ==
  /\ crash = "none" /\ hs[h].m = "ACK" /\ hs[h].pc = "promote"
  /\ \E a \in Acts :
       /\ ~info[a].made /\ \A b \in Acts : b < a => info[b].made
       /\ LET c == hs[h].c
              P1 == [PendingSessions EXCEPT ![c] = NoAddr]
              I1 == [info EXCEPT ![a] = [NoInfo EXCEPT !.made = TRUE]]
              A1 == [ActiveSessions EXCEPT ![c] = a]
              script == GetAIPhoneScriptByPhone(hs[h].phone)
              ok == script # Nil /\ GetStartStep(script) # Nil
              hu == hangupCall(P1, A1, I1, AckStatusUpdate(MemoryCalls, c), c)
          IN IF ok
               THEN \E s \in Sids :
                      /\ sess[s].pc = "none" /\ \A t \in Sids : t < s => sess[t].pc # "none"
                      /\ sess' = [sess EXCEPT ![s] = NewSession(c, hs[h].addr, script)]
                      /\ sessions' = [sessions EXCEPT ![c] = s]
                      /\ PendingSessions' = P1 /\ ActiveSessions' = A1 /\ info' = I1
                      /\ MemoryCalls' = AckStatusUpdate(MemoryCalls, c)
                      /\ UNCHANGED crash
               ELSE /\ PendingSessions' = hu.P /\ ActiveSessions' = hu.A
                    /\ info' = hu.I /\ MemoryCalls' = hu.M /\ crash' = hu.crash
                    /\ UNCHANGED <<sessions, sess>>
  /\ hs' = [hs EXCEPT ![h] = IdleHandler]
  /\ UNCHANGED <<manager, rtpConn, handler, responses, nreq, reqlog>>

\* handleBye, StopSession: the engine's session of the call-id is looked up
HandleBye_Stop(h, c) ==
  /\ crash = "none" /\ nreq < MaxReqs /\ hs[h].m = "idle"
  /\ nreq' = nreq + 1
  /\ Received("BYE", c, 0)
  /\ hs' = [hs EXCEPT ![h] = [IdleHandler EXCEPT !.m = "BYE", !.c = c,
                                !.sid = sessions[c],
                                !.pc = IF sessions[c] # 0 THEN "send" ELSE "update"]]
  /\ UNCHANGED <<manager, rtpConn, handler, PendingSessions, ActiveSessions, info, MemoryCalls, sessions, sess,
                 responses, crash>>

\* StopSession: the blocking send on the session's StopChan; it waits while
\* the slot is full and panics when the channel is closed
HandleBye_Send(h) ==
  /\ crash = "none" /\ hs[h].m = "BYE" /\ hs[h].pc = "send"
  /\ LET s == hs[h].sid
     IN IF sess[s].stopClosed
          THEN crash' = "send on closed channel" /\ UNCHANGED <<sess, hs>>
          ELSE /\ sess[s].stop = 0
               /\ sess' = [sess EXCEPT ![s] = [@ EXCEPT !.stop = 1, !.stopAt = sess[s].pc]]
               /\ hs' = [hs EXCEPT ![h] = [@ EXCEPT !.pc = "update"]]
               /\ UNCHANGED crash
  /\ UNCHANGED <<manager, rtpConn, handler, PendingSessions, ActiveSessions, info, MemoryCalls, sessions,
                 responses, nreq, reqlog>>

\* handleBye: the call record becomes ended (with the time of the BYE as
\* answerTime argument), the pending dialog is removed, the active session
\* is looked up; without one the BYE is answered
HandleBye_Update(h) ==
  /\ crash = "none" /\ hs[h].m = "BYE" /\ hs[h].pc = "update"
  /\ MemoryCalls' = UpdateCallStatusInMemory(MemoryCalls, hs[h].c, "ended", "bye")
  /\ PendingSessions' = [PendingSessions EXCEPT ![hs[h].c] = NoAddr]
  /\ IF ActiveSessions[hs[h].c] # 0
       THEN /\ hs' = [hs EXCEPT ![h] = [@ EXCEPT !.pc = "close",
                                                 !.act = ActiveSessions[hs[h].c]]]
            /\ UNCHANGED responses
       ELSE /\ hs' = [hs EXCEPT ![h] = IdleHandler]
            /\ Respond("BYE", hs[h].c, 200)
  /\ UNCHANGED <<manager, rtpConn, handler, ActiveSessions, info, sessions, sess, nreq, reqlog, crash>>

\* handleBye / handleCancel: the active session found is closed and removed,
\* then the request is answered 200 OK
Handle_Close(h) ==
  /\ crash = "none" /\ hs[h].m \in {"BYE", "CANCEL"} /\ hs[h].pc = "close"
  /\ LET cl == CloseActive(ActiveSessions, info, hs[h].c, hs[h].act)
     IN /\ ActiveSessions' = cl.A /\ info' = cl.I /\ crash' = cl.crash
        /\ IF cl.crash = "none"
             THEN hs' = [hs EXCEPT ![h] = IdleHandler] /\ Respond(hs[h].m, hs[h].c, 200)
             ELSE UNCHANGED <<hs, responses>>
  /\ UNCHANGED <<manager, rtpConn, handler, PendingSessions, MemoryCalls, sessions, sess, nreq, reqlog>>

\* handleCancel: the pending dialog is removed and the active session is
\* looked up; without one the CANCEL is answered
HandleCancel_Pending(h, c) ==
  /\ crash = "none" /\ nreq < MaxReqs /\ hs[h].m = "idle"
  /\ nreq' = nreq + 1
  /\ Received("CANCEL", c, 0)
  /\ PendingSessions' = [PendingSessions EXCEPT ![c] = NoAddr]
  /\ IF ActiveSessions[c] # 0
       THEN /\ hs' = [hs EXCEPT ![h] = [IdleHandler EXCEPT !.m = "CANCEL", !.c = c,
                                          !.pc = "close", !.act = ActiveSessions[c]]]
            /\ UNCHANGED responses
       ELSE /\ hs' = hs
            /\ Respond("CANCEL", c, 200)
  /\ UNCHANGED <<manager, rtpConn, handler, ActiveSessions, info, MemoryCalls, sessions, sess, crash>>

(***************************************************************************)
(* Audio arithmetic (callTTSService, listenForUserInput)                   *)
(***************************************************************************)
\* the value of a 16-bit signed integer after wrap-around
Int16(v) == ((v + 32768) % 65536) - 32768

\* conversion of a float64 to int16 truncates toward zero; for a value out
\* of range the result depends on the build: the low 16 bits, or the
\* nearest bound
Trunc(num, den) == IF num >= 0 THEN num \div den ELSE -((-num) \div den)
ToInt16(v, conv) ==
  IF v >= -32768 /\ v <= 32767 THEN v
  ELSE IF conv = "wrap" THEN Int16(v)
  ELSE IF v < 0 THEN -32768 ELSE 32767

RECURSIVE maxAmplitudeFrom(_, _, _)
\* callTTSService: the loop that finds maxAmplitude; the negation of a
\* negative sample is an int16 negation
maxAmplitudeFrom(audioData, k, maxAmplitude) ==
  IF k > Len(audioData) THEN maxAmplitude
  ELSE LET sample == IF audioData[k] < 0 THEN Int16(-audioData[k]) ELSE audioData[k]
       IN maxAmplitudeFrom(audioData, k + 1,
                           IF sample > maxAmplitude THEN sample ELSE maxAmplitude)

\* callTTSService: the quality check of the decoded samples; amplifyRatio
\* is 8000 / maxAmplitude, at most 4
amplify(audioData, conv) ==
  LET maxAmplitude == maxAmplitudeFrom(audioData, 1, 0)
      capped == 8000 > 4 * maxAmplitude
      num == IF capped THEN 4 ELSE 8000
      den == IF capped THEN 1 ELSE maxAmplitude
  IN IF maxAmplitude < 8000 /\ maxAmplitude > 0
       THEN [k \in 1..Len(audioData) |-> ToInt16(Trunc(audioData[k] * num, den), conv)]
       ELSE audioData

\* sample values of synthesised audio and the length of a buffer
SampleValues == {-32768, -8000, -6400, -100, 0, 100, 6400, 8000, 32767}
MaxSamples == 2
Buffers == UNION {[1..n -> SampleValues] : n \in 1..MaxSamples}

\* callTTSService after a successful synthesis: the samples of the buffer
\* are checked and amplified
CallTTSService(s, conv) ==
  /\ crash = "none"
  /\ sess[s].buffer # <<>> /\ sess[s].audioData = <<>>
  /\ sess' = [sess EXCEPT ![s].audioData = amplify(sess[s].buffer, conv)]
  /\ UNCHANGED <<sipVars, sessions, crash>>

\* listenForUserInput: the samples of a frame beyond the silence threshold
silenceThreshold == 500
validSamples(packetSamples) ==
  Cardinality({k \in 1..Len(packetSamples) :
                 packetSamples[k] > silenceThreshold \/ packetSamples[k] < -silenceThreshold})

\* listenForUserInput: validRatio > validAudioThreshold, with the threshold
\* 0.2; the quotient of two counts up to 160 is above the float64 0.2
\* exactly when it is above one fifth
isValidPacket(packetSamples) == 5 * validSamples(packetSamples) > Len(packetSamples)

\* decoded frames of one packet: the first k samples are loud, the others
\* quiet
Frames ==
  {[i \in 1..SamplesPerPacket |-> IF i <= k THEN loud ELSE quiet] :
     k \in 0..SamplesPerPacket, loud \in {501, -501, 32767}, quiet \in {0, 500, -500}}

\* listenForUserInput: the frame of a PCMU packet of the client is analysed
AnalysePacket(s) ==
  /\ crash = "none"
  /\ sess[s].packetSamples # <<>> /\ sess[s].isValidPacket = ""
  /\ sess' = [sess EXCEPT ![s].isValidPacket =
                 IF isValidPacket(sess[s].packetSamples) THEN "valid" ELSE "silent"]
  /\ UNCHANGED <<sipVars, sessions, crash>>

\* the bodies of INFO requests: lines of the body as tokens
InfoBodies == {<<"Signal=", "1">>, <<"key=", "1">>, <<"dtmf", "3">>, <<>>}

DecimalDigits == {"0", "1", "2", "3", "4", "5", "6", "7", "8", "9"}

\* handleInfo: the digit of a body is the value after Signal=, else the
\* value after key=, else the first decimal digit of the body
DigitOfBody(body) ==
  LET after(key) == IF \E k \in 1..(Len(body) - 1) : body[k] = key
                      THEN body[1 + CHOOSE k \in 1..(Len(body) - 1) : body[k] = key]
                      ELSE ""
      digits == {k \in 1..Len(body) : body[k] \in DecimalDigits}
      named == IF \E k \in 1..Len(body) : body[k] = "Signal=" THEN after("Signal=")
               ELSE IF \E k \in 1..Len(body) : body[k] = "key=" THEN after("key=")
               ELSE ""
  IN IF named # "" THEN named
     ELSE IF digits # {} THEN body[CHOOSE k \in digits : \A j \in digits : k <= j]
     ELSE ""

\* the select of handleInfo: the digit is sent when the channel has room,
\* otherwise the default branch drops it
EnqueueDTMF(queue, digit) ==
  IF Len(queue) < DTMFChannelCap THEN Append(queue, digit) ELSE queue

\* handleInfo: the digit of the body is sent to the DTMF channel of the
\* call's active session, and the request is answered 200 OK; offered
\* records the digit last sent
HandleInfo(h, c, body) ==
  /\ crash = "none" /\ hs[h].m = "idle"
  /\ Received("INFO", c, 0)
  /\ LET dtmfDigit == DigitOfBody(body)
         a == ActiveSessions[c]
     IN IF dtmfDigit # "" /\ a # 0
          THEN info' = [info EXCEPT ![a].DTMFChannel = EnqueueDTMF(@, dtmfDigit),
                                    ![a].offered = dtmfDigit]
          ELSE UNCHANGED info
  /\ Respond("INFO", c, 200)
  /\ UNCHANGED <<manager, rtpConn, handler, PendingSessions, ActiveSessions, MemoryCalls, sessions, sess, hs,
                 nreq, crash>>

(***************************************************************************)
(* Specifications                                                          *)
(***************************************************************************)
Interpreter(s) ==
  \/ ExecuteScript_Start(s)
  \/ ExecuteScript_Loop(s)
  \/ CallTTS(s)
  \/ PlayAudioPacket(s)
  \/ ListenRTP(s)
  \/ CallASR(s)
  \/ CallAI(s)
  \/ WaitElapsed(s)
  \/ WaitStopped(s)
  \/ ExecuteHangupStep(s)
  \/ CleanupSession(s)
  \/ Tick(s)

\* the requests for the call-ids C of callers with the phone numbers P, served by the handler
\* goroutines H; a caller that does not re-invite sends no INVITE for a
\* call-id whose INVITE was answered 200 OK
CallSetup(C, H, P, reinvite) ==
  \/ \E h \in H, c \in C : \E sdp \in {ClientAddrOf[c], BadSDP} :
        /\ reinvite \/ <<"INVITE", c, 200>> \notin responses
        /\ HandleInvite_Respond(h, c, sdp)
  \/ \E h \in H : HandleInvite_Save(h)
  \/ \E h \in H, c \in C, phone \in P : HandleAck_Get(h, c, phone)
  \/ \E h \in H : HandleAck_Promote(h)

HandlersFor(C, H, P, reinvite) ==
  \/ CallSetup(C, H, P, reinvite)
  \/ \E h \in H, c \in C : HandleBye_Stop(h, c)
  \/ \E h \in H : HandleBye_Send(h)
  \/ \E h \in H : HandleBye_Update(h)
  \/ \E h \in H : Handle_Close(h)
  \/ \E h \in H, c \in C : HandleCancel_Pending(h, c)

\* the requests of one call-id
Handlers(H, P, reinvite) == HandlersFor(CallIds, H, P, reinvite)

\* the interpreter of scripts that only play audio and hang up
PlayInterpreter(s) ==
  \/ ExecuteScript_Start(s)
  \/ ExecuteScript_Loop(s)
  \/ CallTTS(s)
  \/ PlayAudioPacket(s)
  \/ ExecuteHangupStep(s)
  \/ CleanupSession(s)

\* the engine: one call per call-id, every script and the passing of time,
\* one request at a time
Next ==
  \/ Handlers({1}, Phones, FALSE)
  \/ \E s \in Sids : Interpreter(s)

Spec == Init /\ [][Next]_vars

\* the server: requests handled concurrently, callers of one short script
\* and callers without a script
SipPhones == {"n1001", "n0000"}

NextSip ==
  \/ Handlers(Hs, SipPhones, TRUE)
  \/ \E s \in Sids : PlayInterpreter(s)

SpecSip == Init /\ [][NextSip]_vars

\* two calls, one request at a time, callers of the short script
CapPhones == {"n1001"}

NextCap ==
  \/ HandlersFor(AllCallIds, {1}, CapPhones, FALSE)
  \/ \E s \in Sids : PlayInterpreter(s)

SpecCap == Init /\ [][NextCap]_vars

\* the steps the server takes by itself: a handler goroutine that has
\* received its request goes on, an interpreter goroutine goes on
ProgramStep ==
  \/ \E h \in Hs : \/ HandleInvite_Save(h)
                   \/ HandleAck_Promote(h)
                   \/ HandleBye_Send(h)
                   \/ HandleBye_Update(h)
                   \/ Handle_Close(h)
  \/ \E s \in Sids : PlayInterpreter(s)

\* one call, one request at a time; goroutines that can run do run, while
\* no caller is obliged to send a further request
NextLive ==
  \/ Handlers({1}, SipPhones, FALSE)
  \/ \E s \in Sids : PlayInterpreter(s)

SpecLive == Init /\ [][NextLive]_vars /\ WF_vars(ProgramStep)

\* one call at a time to a number whose script is a draft, or to a number
\* without mapping
NextDraft ==
  \/ Handlers({1}, DraftPhones \cup {"n0000"}, FALSE)
  \/ \E s \in Sids : PlayInterpreter(s)

SpecDraft == Init /\ [][NextDraft]_vars

\* the interpreter of scripts whose steps wait, record or transfer
FlowInterpreter(s) ==
  \/ ExecuteScript_Start(s)
  \/ ExecuteScript_Loop(s)
  \/ WaitElapsed(s)
  \/ WaitStopped(s)
  \/ CleanupSession(s)

\* the interpreter goroutines run when they can, and timers fire
FlowStep == \E s \in Sids : FlowInterpreter(s)

\* one call at a time to a script with a cycle, a script whose step names
\* no successor or a script whose step names a successor that does not
\* exist, while time passes
FlowPhones == {"n1002", "n1003", "n1004"}

NextFlow ==
  \/ Handlers({1}, FlowPhones, FALSE)
  \/ \E s \in Sids : FlowInterpreter(s) \/ Tick(s)

SpecFlow == Init /\ [][NextFlow]_vars /\ WF_vars(FlowStep)

\* two calls from different hosts are set up to the script that collects an
\* answer; their interpreters listen on the one RTP socket of the server
RtpPhones == {"n1007"}

NextRtp ==
  \/ CallSetup(AllCallIds, {1}, RtpPhones, FALSE)
  \/ \E s \in Sids :
        \/ ExecuteScript_Start(s)
        \/ ExecuteScript_Loop(s)
        \/ ListenRTP(s)
        \/ CallASR(s)
        \/ CallTTS(s)
        \/ PlayAudioPacket(s)
        \/ CleanupSession(s)
        \/ \E t \in Sids : ReadOtherPacket(s, t)

SpecRtp == Init /\ [][NextRtp]_vars

\* one call to the conversational script that is not hung up by the caller
TalkInterpreter(s) ==
  \/ ExecuteScript_Start(s)
  \/ ExecuteScript_Loop(s)
  \/ CallTTS(s)
  \/ PlayAudioPacket(s)
  \/ ListenRTP(s)
  \/ CallASR(s)
  \/ CallAI(s)
  \/ WaitElapsed(s)
  \/ ExecuteHangupStep(s)
  \/ CleanupSession(s)

TalkPhones == {"n1005"}

NextTalk ==
  \/ CallSetup(CallIds, {1}, TalkPhones, FALSE)
  \/ \E s \in Sids : TalkInterpreter(s) \/ Tick(s)

SpecTalk == Init /\ [][NextTalk]_vars

\* one call to the conversational script while the LLM service is down:
\* every query returns an error; speech synthesis works
OutageInterpreter(s) ==
  \/ ExecuteScript_Start(s)
  \/ ExecuteScript_Loop(s)
  \/ CallTTSWith(s, 1..MaxPackets, FALSE)
  \/ PlayAudioPacket(s)
  \/ ListenRTP(s)
  \/ CallASR(s)
  \/ CallAIWith(s, {"error"})
  \/ WaitElapsed(s)
  \/ ExecuteHangupStep(s)
  \/ CleanupSession(s)

NextOutage ==
  \/ CallSetup(CallIds, {1}, TalkPhones, FALSE)
  \/ \E s \in Sids : OutageInterpreter(s)

SpecOutage == Init /\ [][NextOutage]_vars

\* one call to the key menu
DtmfInterpreter(s) ==
  \/ ExecuteScript_Start(s)
  \/ ExecuteScript_Loop(s)
  \/ CallTTS(s)
  \/ PlayAudioPacket(s)
  \/ ListenDTMF_Digit(s)
  \/ ListenDTMF_Timeout(s)
  \/ CleanupSession(s)

NextDtmf ==
  \/ CallSetup(CallIds, {1}, DtmfPhones, FALSE)
  \/ \E s \in Sids : DtmfInterpreter(s)

SpecDtmf == Init /\ [][NextDtmf]_vars

\* one call whose client sends keys in INFO requests
NextInfo ==
  \/ CallSetup(CallIds, {1}, {"n1001"}, FALSE)
  \/ \E c \in CallIds, body \in InfoBodies : HandleInfo(1, c, body)

SpecInfo == Init /\ [][NextInfo]_vars

\* the TTS service has returned some buffer of samples
InitAudio ==
  /\ PendingSessions = [c \in AllCallIds |-> NoAddr]
  /\ ActiveSessions = [c \in AllCallIds |-> 0]
  /\ info = [a \in Acts |-> NoInfo]
  /\ MemoryCalls = [c \in AllCallIds |-> NoCall]
  /\ sessions = [c \in AllCallIds |-> 0]
  /\ \E b \in Buffers : sess = [s \in Sids |-> IF s = 1 THEN [NoSession EXCEPT !.buffer = b]
                                                     ELSE NoSession]
  /\ hs = [h \in Hs |-> IdleHandler]
  /\ responses = {}
  /\ reqlog = [c \in AllCallIds |-> NoLog]
  /\ nreq = 0
  /\ crash = "none"
  /\ manager = NoManager
  /\ rtpConn = [deadline |-> FALSE]
  /\ handler = [messages |-> {}]

NextAudio == \E s \in Sids, conv \in {"wrap", "saturate"} : CallTTSService(s, conv)

SpecAudio == InitAudio /\ [][NextAudio]_vars

\* a listening session has received some frame
InitFrame ==
  /\ PendingSessions = [c \in AllCallIds |-> NoAddr]
  /\ ActiveSessions = [c \in AllCallIds |-> 0]
  /\ info = [a \in Acts |-> NoInfo]
  /\ MemoryCalls = [c \in AllCallIds |-> NoCall]
  /\ sessions = [c \in AllCallIds |-> 0]
  /\ \E f \in Frames :
       sess = [s \in Sids |-> IF s = 1 THEN [NoSession EXCEPT !.packetSamples = f]
                                         ELSE NoSession]
  /\ hs = [h \in Hs |-> IdleHandler]
  /\ responses = {}
  /\ reqlog = [c \in AllCallIds |-> NoLog]
  /\ nreq = 0
  /\ crash = "none"
  /\ manager = NoManager
  /\ rtpConn = [deadline |-> FALSE]
  /\ handler = [messages |-> {}]

NextFrame == \E s \in Sids : AnalysePacket(s)

SpecFrame == InitFrame /\ [][NextFrame]_vars

\* script files are loaded
NextLoad == \E cfg \in ScriptConfigs : LoadScriptFromJSON(cfg)

SpecLoad == Init /\ [][NextLoad]_vars

\* two calls whose clients send no RTP at all: one to the script that
\* collects an answer, one to the key menu or to the same script
SilentInterpreter(s) ==
  \/ ExecuteScript_Start(s)
  \/ ExecuteScript_Loop(s)
  \/ CallTTSWith(s, {1}, FALSE)
  \/ PlayAudioPacket(s)
  \/ Listen_SetReadDeadline(s)
  \/ Listen_ReadTimeout(s)
  \/ ListenDTMF_ReadTimeout(s)
  \/ CleanupSession(s)

NextSilent ==
  \/ CallSetup(AllCallIds, {1}, RtpPhones \cup DtmfPhones, FALSE)
  \/ \E s \in Sids : SilentInterpreter(s)

SpecSilent == Init /\ [][NextSilent]_vars

\* one call to the two questions; the caller speaks or stays silent, the
\* services work
RecollectInterpreter(s) ==
  \/ ExecuteScript_Start(s)
  \/ ExecuteScript_Loop(s)
  \/ CallTTSWith(s, {1}, FALSE)
  \/ PlayAudioPacket(s)
  \/ ListenRTP(s)
  \/ CallASRWith(s, UserTexts, FALSE)
  \/ CleanupSession(s)

NextRecollect ==
  \/ CallSetup(CallIds, {1}, RecollectPhones, FALSE)
  \/ \E s \in Sids : RecollectInterpreter(s)

SpecRecollect == Init /\ [][NextRecollect]_vars

\* two calls to the conversational script; the callers speak and the
\* services work
SharedInterpreter(s) ==
  \/ ExecuteScript_Start(s)
  \/ ExecuteScript_Loop(s)
  \/ CallTTSWith(s, {1}, FALSE)
  \/ PlayAudioPacket(s)
  \/ ListenRTPWith(s, FALSE)
  \/ CallASRWith(s, UserTexts, FALSE)
  \/ CallAIWith(s, {"answer"})
  \/ ExecuteHangupStep(s)
  \/ CleanupSession(s)

NextShared ==
  \/ CallSetup(AllCallIds, {1}, TalkPhones, FALSE)
  \/ \E s \in Sids : SharedInterpreter(s)

SpecShared == Init /\ [][NextShared]_vars

\* what the caller of the survey scenario says when session r listens: the
\* next utterance of SurveyCaller
SurveyUtterance(r) ==
  LET n == Cardinality({i \in 1..Len(r.Conversation) : r.Conversation[i].Role = "user"})
  IN IF n < Len(SurveyCaller) THEN SurveyCaller[n + 1] ELSE <<>>

\* the interpreter in the survey scenario: the caller speaks whenever the
\* interpreter listens, speech synthesis and recognition work, the LLM may
\* fail
SurveyInterpreter(s) ==
  \/ ExecuteScript_Start(s)
  \/ ExecuteScript_Loop(s)
  \/ CallTTSWith(s, 1..MaxPackets, FALSE)
  \/ PlayAudioPacket(s)
  \/ ListenRTPWith(s, FALSE)
  \/ CallASRWith(s, {SurveyUtterance(sess[s])}, FALSE)
  \/ CallAI(s)
  \/ ExecuteHangupStep(s)
  \/ CleanupSession(s)

\* one call to the seeded survey number
NextSurvey ==
  \/ CallSetup(CallIds, {1}, SurveyPhones, FALSE)
  \/ \E s \in Sids : SurveyInterpreter(s)

SpecSurvey == Init /\ [][NextSurvey]_vars

(***************************************************************************)
(* Properties                                                              *)
(***************************************************************************)
Created(s) == sess[s].pc # "none"

\* the step executions of session s that completed without naming a successor
EmptyNextExecs(s) ==
  {i \in 1..Len(sess[s].exec) :
     sess[s].exec[i].Status = "completed" /\ sess[s].exec[i].NextStepID = ""}

\* C1: a step execution that yields an empty next-step identifier is the
\* last execution recorded for its session, and the session that has ended
\* after it has status completed.
C1_EmptyNextTerminates ==
  \A s \in Sids : \A i \in EmptyNextExecs(s) :
    /\ i = Len(sess[s].exec)
    /\ sess[s].pc = "done" => sess[s].Status = "completed"

\* C2: a session that executed a hangup step and has ended, with no stop
\* requested by a BYE, has status completed.
C2_HangupCompletes ==
  \A s \in Sids :
    ( /\ sess[s].pc = "done"
      /\ sess[s].stopAt = ""
      /\ \E i \in 1..Len(sess[s].exec) :
            sess[s].exec[i].StepType = "hangup" /\ sess[s].exec[i].Status = "completed" )
    => sess[s].Status = "completed"

\* C3: a session with status completed has neither reached maxDuration with
\* its elapsed time nor maxSteps with its step count.
C3_NoCompletedPastLimits ==
  \A s \in Sids :
    sess[s].Status = "completed"
    => /\ sess[s].elapsed < Scripts[sess[s].Script].MaxDuration
       /\ sess[s].StepCount < Scripts[sess[s].Script].MaxSteps

\* C4: a session whose stop was raised by a BYE while a step was being
\* executed ends with status cancelled.
C4_ByeMidStepCancels ==
  \A s \in Sids :
    (sess[s].pc = "done" /\ sess[s].stopAt \in BlockingPcs)
    => sess[s].Status = "cancelled"

\* C5: no terminating event fails: StopChan is never sent on after it was
\* closed and no DTMF channel is closed twice.
C5_NoDoubleTerminationFailure ==
  crash \notin {"send on closed channel", "close of closed channel"}

\* C6: the interpreters ever started for a call-id are at most as many as
\* the INVITEs of that call-id answered 200 OK.
C6_OneInterpreterPerInvite ==
  \A c \in CallIds :
    Cardinality({s \in Sids : Created(s) /\ sess[s].CallID = c}) <= reqlog[c].accepted

\* C7: once the 200 OK of an INVITE is sent and while no ACK, CANCEL or BYE
\* of the call-id has been received, the call-id has a pending dialog.
C7_PendingFrom200 ==
  \A c \in CallIds :
    ( /\ <<"INVITE", c, 200>> \in responses
      /\ reqlog[c].seen \cap {"ACK", "CANCEL", "BYE"} = {} )
    => PendingSessions[c] # NoAddr

\* C8: a call-id with an active session has no pending dialog.
C8_ActiveHasNoPending ==
  \A c \in CallIds : ActiveSessions[c] # 0 => PendingSessions[c] = NoAddr

\* C9: when handleInvite finishes for a call-id that has a pending dialog or
\* an active session, the pending table, the active table and the call
\* records are as they were.
C9_ReInviteCreatesNothing ==
  [][\A h \in Hs :
       ( /\ hs[h].m = "INVITE" /\ hs'[h].m = "idle"
         /\ (PendingSessions[hs[h].c] # NoAddr \/ ActiveSessions[hs[h].c] # 0) )
       => /\ PendingSessions' = PendingSessions
          /\ ActiveSessions' = ActiveSessions
          /\ MemoryCalls' = MemoryCalls]_vars

\* C10: after the stop of a session was raised while it was speaking or
\* listening, the session sends no RTP packet and starts no TTS, ASR or LLM
\* call.
C10_StopEndsSpeakAndListen ==
  [][\A s \in Sids :
       sess[s].stopAt \in {"tts", "play", "listen", "asr", "llm"}
       => /\ sess'[s].rtp = sess[s].rtp
          /\ sess'[s].tts = sess[s].tts
          /\ sess'[s].asr = sess[s].asr
          /\ sess'[s].llm = sess[s].llm]_vars

\* the terminal session statuses
Terminal == {"completed", "failed", "timeout", "cancelled", "transferred"}

\* C11: when the interpreter of a session has exited, the call-id has no
\* active session in the store and its call record is ended.
C11_ExitEndsCall ==
  \A s \in Sids :
    sess[s].pc = "done"
    => /\ ActiveSessions[sess[s].CallID] = 0
       /\ MemoryCalls[sess[s].CallID].Status = "ended"

\* C12: a session with a terminal status has its end timestamp set and its
\* duration is end minus start (the start being time 0).
C12_TerminalHasEndTime ==
  \A s \in Sids :
    sess[s].Status \in Terminal
    => sess[s].EndTime # NoTime /\ sess[s].Duration = sess[s].EndTime - 0

\* the status changes of a session that are allowed
StatusMoves ==
  {<<"none", "starting">>, <<"starting", "running">>}
    \cup {<<"running", t>> : t \in Terminal}

\* C13: every change of a session's status is starting -> running or
\* running -> terminal (after its creation as starting), and an interpreter
\* that exits leaves its session in a terminal status.
C13_StatusTransitions ==
  [][\A s \in Sids :
       /\ sess'[s].Status # sess[s].Status
            => <<sess[s].Status, sess'[s].Status>> \in StatusMoves
       /\ (sess[s].pc # "done" /\ sess'[s].pc = "done")
            => sess'[s].Status \in Terminal]_vars

\* C14: the active sessions in the store are never more than
\* MaxConcurrentSessions.
C14_ActiveWithinBound ==
  Cardinality({c \in AllCallIds : ActiveSessions[c] # 0}) <= MaxConcurrentSessions

\* C15: a pending dialog is eventually removed, whether or not a further
\* request arrives for its call-id.
C15_PendingEventuallyRemoved ==
  \A c \in CallIds : (PendingSessions[c] # NoAddr) ~> (PendingSessions[c] = NoAddr)

\* C16: the step executions of a session start at the start step, each
\* later one executes the successor named by the execution before it, and
\* the successor of a condition step just executed is trueNext or falseNext
\* according to the predicate.
C16_ExecutionsFormWalk ==
  \A s \in Sids : \A i \in 1..Len(sess[s].exec) :
    LET e == sess[s].exec[i]
        d == StepOf(sess[s].Script, e.StepID).Data
    IN /\ i = 1 => e.StepID = Scripts[sess[s].Script].StartStepID
       /\ i > 1 => e.StepID = sess[s].exec[i - 1].NextStepID
       /\ (e.StepType = "condition" /\ e.Status = "completed" /\ i = Len(sess[s].exec))
            => e.NextStepID = IF evaluateCondition(sess[s], d.condition)
                                THEN d.trueNext ELSE d.falseNext

\* C17: every RTP packet sent for a session after its first has the
\* sequence number of the packet before it plus one and that packet's
\* timestamp plus its sample count.
C17_RtpHeadersContinue ==
  [][\A s \in Sids :
       (sess[s].rtp > 0 /\ sess'[s].rtp = sess[s].rtp + 1)
       => /\ sess'[s].lastSeq = sess[s].lastSeq + 1
          /\ sess'[s].lastTs = sess[s].lastTs + SamplesPerPacket]_vars

\* C18: a call-id with an active session in the store has a script session
\* that is running or completed.
C18_ActiveImpliesSession ==
  \A c \in CallIds :
    ActiveSessions[c] # 0
    => \E s \in Sids : /\ Created(s) /\ sess[s].CallID = c
                       /\ sess[s].Status \in {"running", "completed"}

\* a CANCEL was processed for the call of session s while the call was
\* active: a CANCEL of the call-id was answered, the channels of an active
\* session were closed, and neither a BYE nor hangupCall closed them
CancelledWhileActive(s) ==
  /\ Created(s)
  /\ <<"CANCEL", sess[s].CallID, 200>> \in responses
  /\ "BYE" \notin reqlog[sess[s].CallID].seen
  /\ \E a \in Acts : info[a].dtmfClosed

\* C19: once a CANCEL was processed for an active call, the call-id has no
\* pending dialog and no active session, the interpreter of its script
\* session executes no further step, and the session ends as cancelled.
C19_CancelStopsScript ==
  [][\A s \in Sids :
       CancelledWhileActive(s)
       => /\ Len(sess'[s].exec) = Len(sess[s].exec)
          /\ sess[s].pc = "done" => sess[s].Status = "cancelled"
          /\ PendingSessions[sess[s].CallID] = NoAddr
          /\ ActiveSessions[sess[s].CallID] = 0]_vars

\* C20: no BYE is left unanswered: the goroutine handling a BYE is not ended
\* by a panic of its StopSession call before it has answered.
C20_ByeAnswered ==
  \A h \in Hs : hs[h].m = "BYE" => crash # "send on closed channel"

\* C21: an INVITE whose SDP cannot be parsed is answered 500 and creates no
\* state: a call-id none of whose INVITEs was accepted has no pending
\* dialog, no call record and no active session, and a 500 is the only
\* answer its INVITEs got
C21_BadSdpCreatesNothing ==
  \A c \in AllCallIds :
    reqlog[c].accepted = 0 =>
      /\ PendingSessions[c] = NoAddr
      /\ MemoryCalls[c] = NoCall
      /\ ActiveSessions[c] = 0
      /\ sessions[c] = 0
      /\ <<"INVITE", c, 200>> \notin responses
      /\ ("INVITE" \in reqlog[c].seen => <<"INVITE", c, 500>> \in responses)

\* an INVITE with a bad SDP was answered 500, and the caller went on to
\* send an ACK for it
C21_Witness ==
  \E c \in CallIds :
    /\ <<"INVITE", c, 500>> \in responses
    /\ reqlog[c].accepted = 0
    /\ "ACK" \in reqlog[c].seen

\* C22: only active scripts are dispatched: no interpreter is created for a
\* script whose status is draft, inactive or archived.
C22_OnlyActiveDispatched ==
  \A s \in Sids : Created(s) => Scripts[sess[s].Script].Status = "active"

\* C23: the store's call record goes through ringing, answered, ended
\* whatever the back-end: once the ACK has made the call active, the record
\* kept by the memory back-end is answered (or already ended by a BYE).
C23_AckedCallIsAnswered ==
  \A c \in AllCallIds :
    (ActiveSessions[c] # 0 /\ MemoryCalls[c].Status # "none")
      => MemoryCalls[c].Status \in {"answered", "ended"}

\* C24: a session never has more step executions than the MaxSteps of its
\* script, and the interpreter loop of every session ends (its goroutine
\* exits), cycles in the script included, given that every step returns.
C24_StepsBoundedAndLoopEnds ==
  /\ [](\A s \in Sids :
         Created(s) => Len(sess[s].exec) <= Scripts[sess[s].Script].MaxSteps)
  /\ \A s \in Sids : Created(s) ~> sess[s].pc = "done"

\* the script with a cycle was cut off by the step bound
C24_Witness ==
  \E s \in Sids :
    /\ sess[s].Script = "loop" /\ sess[s].pc = "done"
    /\ sess[s].Status = "completed"
    /\ Len(sess[s].exec) = Scripts["loop"].MaxSteps

\* C25: inbound RTP reaches the session that owns it: no packet sent by the
\* peer of a session is taken from the socket by another session's read.
C25_RtpReachesOwner ==
  \A t \in Sids : sess[t].missed = 0

\* the executions of session s after execution i that run a step with a turn
\* loop (they rewrite the no_user_response mark)
LaterTurns(s, i) ==
  {j \in (i + 1)..Len(sess[s].exec) : sess[s].exec[j].StepType \in {"callout", "collect"}}

\* C26: one say-and-listen step calls the listen operation at most three
\* times and speaks at most two retry prompts; when it completes, its
\* successor is the step's nextStep, and no_user_response is set in the
\* context if no attempt yielded text and cleared otherwise.
C26_TurnLoopBounded ==
  \A s \in Sids : \A i \in 1..Len(sess[s].exec) :
    LET e == sess[s].exec[i]
    IN e.StepType = "callout" =>
         /\ e.Listens <= MaxRetries + 1
         /\ e.Prompts <= MaxRetries
         /\ e.Status = "completed" =>
              /\ e.NextStepID = StepOf(sess[s].Script, e.StepID).Data.nextStep
              /\ LaterTurns(s, i) = {} =>
                   (("no_user_response" \in sess[s].Context) <=> (e.UserInput = <<>>))

\* three attempts without text: two retry prompts were spoken and the mark
\* is set
C26_Witness ==
  \E s \in Sids : \E i \in 1..Len(sess[s].exec) :
    /\ sess[s].exec[i].StepType = "callout"
    /\ sess[s].exec[i].Status = "completed"
    /\ sess[s].exec[i].Listens = MaxRetries + 1
    /\ sess[s].exec[i].Prompts = MaxRetries
    /\ "no_user_response" \in sess[s].Context

\* C27: with the seeded survey script and a caller who first greets and then
\* says they want a job, the condition step check_need (has_job_need) names
\* collect_need as successor.
C27_JobNeedRoutesToCollect ==
  \A s \in Sids : \A i \in 1..Len(sess[s].exec) :
    (/\ sess[s].Script = "survey"
     /\ sess[s].exec[i].StepID = "check_need"
     /\ sess[s].exec[i].Status = "completed")
      => sess[s].exec[i].NextStepID = "collect_need"

\* C28: a completed step execution whose successor identifier names no
\* step of the script is the last execution of its session, and the session
\* is failed with the error message "Next step not found: <id>".
C28_MissingSuccessorFails ==
  \A s \in Sids : \A i \in 1..Len(sess[s].exec) :
    LET e == sess[s].exec[i]
    IN (/\ e.Status = "completed" /\ e.NextStepID # ""
        /\ GetStepByID(sess[s].Script, e.NextStepID) = Nil)
         => /\ i = Len(sess[s].exec)
            /\ sess[s].Status = "failed"
            /\ sess[s].ErrorMessage = <<"Next step not found: ", e.NextStepID>>
            /\ sess[s].pc \in {"cleanup", "done"}

\* the transfer step that names the successor "missing" has completed and
\* the interpreter has exited
C28_Witness ==
  \E s \in Sids :
    /\ sess[s].pc = "done" /\ Len(sess[s].exec) = 1
    /\ sess[s].exec[1].Status = "completed"
    /\ sess[s].exec[1].NextStepID = "missing"
    /\ sess[s].Status = "failed"

\* the assistant messages that session s recorded during step stepID
AssistantMessages(s, stepID) ==
  {j \in 1..Len(sess[s].Conversation) :
     /\ sess[s].Conversation[j].Role = "assistant"
     /\ sess[s].Conversation[j].StepID = stepID}

\* C29: while every LLM query fails, a say-and-listen turn that obtained
\* user text appends exactly one assistant message, the canned reply, and
\* speaks it; the execution ends completed with nextStep as successor, and
\* no step execution and no session is failed.
C29_LlmErrorFallsBack ==
  \A s \in Sids :
    /\ sess[s].Status # "failed"
    /\ \A i \in 1..Len(sess[s].exec) :
         LET e == sess[s].exec[i]
             answered == e.Status # "running" \/ sess[s].pc # "llm"
         IN /\ e.Status # "failed"
            /\ (e.StepType = "callout" /\ e.UserInput # <<>> /\ answered) =>
                 /\ Cardinality(AssistantMessages(s, e.StepID)) = 1
                 /\ \A j \in AssistantMessages(s, e.StepID) :
                      sess[s].Conversation[j].Content = <<"mock", (j - 1) % 7>>
                 /\ e.Status = "running" =>
                      sess[s].pc \in {"tts", "play"} /\ sess[s].site = "reply"
                 /\ e.Status = "completed" =>
                      /\ e.NextStepID = StepOf(sess[s].Script, e.StepID).Data.nextStep
                      /\ sess[s].tts =
                           (IF StepOf(sess[s].Script, e.StepID).Data.welcome # ""
                              THEN 1 ELSE 0) + e.Prompts + 1

\* the LLM failed in a turn with user text, the canned reply was spoken and
\* the step completed
C29_Witness ==
  \E s \in Sids : \E i \in 1..Len(sess[s].exec) :
    /\ sess[s].exec[i].StepType = "callout"
    /\ sess[s].exec[i].UserInput # <<>>
    /\ sess[s].exec[i].Status = "completed"
    /\ sess[s].llm = 1
    /\ AssistantMessages(s, sess[s].exec[i].StepID) # {}

\* C30: a TTS error during a step makes the step execution failed and the
\* session failed: a call of the TTS service that returns an error leaves
\* the session failed and its last execution failed.
C30_TtsErrorFailsStep ==
  [][\A s \in Sids :
       (sess[s].pc = "tts" /\ sess'[s].tts = sess[s].tts + 1 /\ sess'[s].pc # "play")
         => /\ sess'[s].Status = "failed"
            /\ sess'[s].exec[Len(sess'[s].exec)].Status = "failed"]_vars

\* the keys of a collected input
KeysOf(input) == {input[k] : k \in 1..Len(input)}

\* C31: a completed dtmf step names dtmfOptions[input] as successor when the
\* collected input is a key of dtmfOptions, nextStep when input was
\* collected that is no such key, falseNext when none was collected; the
\* input has at most dtmfMaxDigits digits and does not contain the
\* terminator.
C31_DtmfSuccessor ==
  \A s \in Sids : \A i \in 1..Len(sess[s].exec) :
    LET e == sess[s].exec[i]
        r == [sess[s] EXCEPT !.CurrentStep = e.StepID]
        d == DataOf(r)
    IN (e.StepType = "dtmf" /\ e.Status = "completed") =>
         /\ Len(e.UserInput) <= maxDigitsOf(r)
         /\ terminatorOf(r) \notin KeysOf(e.UserInput)
         /\ e.UserInput \in DOMAIN d.dtmfOptions => e.NextStepID = d.dtmfOptions[e.UserInput]
         /\ (e.UserInput # <<>> /\ e.UserInput \notin DOMAIN d.dtmfOptions)
              => e.NextStepID = d.nextStep
         /\ e.UserInput = <<>> => e.NextStepID = d.falseNext

\* a key was pressed and then the terminator: the step completed with the
\* successor of that key
C31_Witness ==
  \E s \in Sids :
    /\ Len(sess[s].exec) = 1
    /\ sess[s].exec[1].StepType = "dtmf" /\ sess[s].exec[1].Status = "completed"
    /\ sess[s].exec[1].UserInput = <<"1">>
    /\ sess[s].exec[1].NextStepID = "x"
    /\ sess[s].pc = "done"

\* C32: the digit that an INFO request last carried for an active session
\* is the newest entry of the session's DTMF queue (the oldest entry making
\* room when the queue is full).
C32_NewestDigitQueued ==
  \A a \in Acts :
    info[a].offered # "" =>
      LET q == info[a].DTMFChannel
      IN q # <<>> /\ q[Len(q)] = info[a].offered

\* the absolute value of a sample
Abs(v) == IF v < 0 THEN -v ELSE v

\* the peak absolute amplitude of a buffer
Peak(b) == CHOOSE p \in {Abs(b[k]) : k \in 1..Len(b)} : \A k \in 1..Len(b) : Abs(b[k]) <= p

\* C33: TTS post-processing returns every sample unchanged when the peak
\* absolute amplitude of the synthesised audio is at least 8000, for every
\* int16 sample value; otherwise no sample grows by more than the factor 4.
C33_LoudAudioUnchanged ==
  \A s \in Sids :
    LET b == sess[s].buffer
        out == sess[s].audioData
    IN out # <<>> =>
         /\ Peak(b) >= 8000 => out = b
         /\ Peak(b) < 8000 => \A k \in 1..Len(b) : Abs(out[k]) <= 4 * Abs(b[k])

\* C34: a received frame counts as speech exactly when at least 20% of its
\* samples have an absolute value above 500; a frame of 160 samples with
\* exactly 32 such samples is valid.
C34_FrameValidFromOneFifth ==
  \A s \in Sids :
    LET f == sess[s].packetSamples
        above == Cardinality({k \in 1..Len(f) : Abs(f[k]) > 500})
    IN sess[s].isValidPacket # "" =>
         (sess[s].isValidPacket = "valid" <=> 5 * above >= Len(f))

\* the step identifiers of a script file, and the identifiers it refers to
ConfigIds(cfg) == {cfg.Steps[k].ID : k \in 1..Len(cfg.Steps)}
ConfigRefs(cfg) ==
  UNION {LET d == cfg.Steps[k].Data
         IN ({d.nextStep, d.trueNext, d.falseNext} \ {""})
              \cup {d.dtmfOptions[o] : o \in DOMAIN d.dtmfOptions} : k \in 1..Len(cfg.Steps)}

\* the load-time validation of a script file
ValidConfig(cfg) ==
  /\ cfg.StartID \in ConfigIds(cfg)
  /\ ConfigRefs(cfg) \subseteq ConfigIds(cfg)
  /\ \A k \in 1..Len(cfg.Steps) :
       cfg.Steps[k].Type = "condition"
         => cfg.Steps[k].Data.trueNext # "" /\ cfg.Steps[k].Data.falseNext # ""
  /\ \A j, k \in 1..Len(cfg.Steps) : cfg.Steps[j].ID = cfg.Steps[k].ID => j = k

\* C35: a script file whose start identifier or whose successor references
\* name no step, whose condition step lacks a branch, or in which two steps
\* share an identifier is neither stored nor cached.
C35_InvalidScriptRejected ==
  \A cfg \in ScriptConfigs :
    ~ValidConfig(cfg) =>
      /\ manager.cache[cfg.Name] = <<>>
      /\ \A script \in manager.db : script.Name # cfg.Name

\* C36: the send of the hangup step on the session's stop channel is never
\* held up: when the interpreter is about to send, the slot of the channel
\* is free, so that the interpreter goes on to cleanupSession.
C36_HangupSendNeverBlocked ==
  \A s \in Sids : sess[s].pc = "hangup" => sess[s].stop = 0

\* C37: a listen without RTP packets can always return: while it waits in
\* its read a deadline is pending on the socket, or another session is
\* still running that will set one.
C37_ListenCanReturn ==
  \A s \in Sids :
    (sess[s].pc \in {"read", "dtmfRead"} /\ ~rtpConn.deadline)
      => \E t \in Sids \ {s} : sess[t].pc \notin {"none", "done", "read", "dtmfRead"}

\* C38: ending a call sets the status of its record to ended and leaves the
\* answer time alone: the record of an ended call never holds the time of
\* the BYE or of the hangup as its answer time.
C38_EndKeepsAnswerTime ==
  \A c \in AllCallIds :
    MemoryCalls[c].Status = "ended" => MemoryCalls[c].AnswerTime \notin {"bye", "hangup"}

\* C39: when a collect step has stored the user's text and the session
\* carries no no_user_response mark, a condition step on collect_success
\* that follows takes its true branch, whatever an earlier collect step did.
C39_CollectSuccessAfterSuccess ==
  \A s \in Sids : \A i \in 2..Len(sess[s].exec) :
    LET e == sess[s].exec[i]
        before == sess[s].exec[i - 1]
        d == StepOf(sess[s].Script, e.StepID).Data
    IN (/\ e.StepType = "condition" /\ e.Status = "completed"
        /\ d.condition = "collect_success"
        /\ before.StepType = "collect" /\ before.UserInput # <<>>
        /\ "no_user_response" \notin sess[s].Context)
         => e.NextStepID = d.trueNext

\* C40: the messages sent to the LLM for a call hold text of that call only,
\* never text of another call, be it concurrent or earlier.
C40_LlmHistoryPerCall ==
  \A s \in Sids : sess[s].sent \subseteq {s}

====
